---- MODULE Spec2Model ----
(***************************************************************************)
(* A model of InlinedHashTable / InlinedHashMap (inlined_hash_table.h):    *)
(* a hopscotch hash table whose first NumInlinedBuckets slots live inside  *)
(* the table object and whose remaining slots live in a heap array.        *)
(*                                                                         *)
(* A table is represented by its Array: the record                         *)
(*   [inlined_, outlined_, size_, capacity_mask_]                          *)
(* where inlined_ and outlined_ are sequences of buckets (outlined_ = <<>> *)
(* stands for the null pointer) and a bucket is [md, value] with           *)
(* md = [mask_, origin_] the packed metadata word.  A payload is a         *)
(* <<key, mapped value>> pair; the payload of an unoccupied slot is raw    *)
(* memory and is written NoValue.                                          *)
(***************************************************************************)
EXTENDS Integers, Sequences, FiniteSets, TLC

VARIABLES NumInlinedBuckets, workload, nf, nf2, m, m2, model, model2, last, fault, leaf

vars == <<NumInlinedBuckets, workload, nf, nf2, m, m2, model, model2, last, fault, leaf>>

(***************************************************************************)
(* Bounds of the checked instance.                                         *)
(***************************************************************************)
\* The number of keys a filling workload inserts, in a fixed order, before
\* it works on the free keys.
NumFillers == 27
\* Mapped values are 1 .. NumValues.
NumValues == 2
\* The number of ordered keys of the workload with two tables.
NumCopyKeys == 9

\* The largest bucket-count hint a table is constructed with.
MaxHint == 17
\* The leaf masks a LeafIterator is made of have at most MaxLeafBits bits set
\* or at most MaxLeafHoles bits clear.
MaxLeafBits == 3
MaxLeafHoles == 1
\* The calls of Next() made after the first one that returned -1.
MaxExhausted == 2

(***************************************************************************)
(* Program constants.                                                      *)
(***************************************************************************)
\* IndexType is modelled as an unsigned integer of IndexBits bits.
IndexBits == 16
IndexMod == 2 ^ IndexBits
kEnd == IndexMod - 1
kMaskBits == 27
kOriginBits == 32 - kMaskBits
MaxHopDistance == 27
MaxAddDistance == 128
MaxInsertIter == 4

\* The payload of a slot whose metadata says "not occupied".
NoValue == <<>>

RECURSIVE BitAnd(_, _)
BitAnd(x, y) ==
  IF x = 0 \/ y = 0 THEN 0
  ELSE (x % 2) * (y % 2) + 2 * BitAnd(x \div 2, y \div 2)

(***************************************************************************)
(* InlinedHashTableBucketMetadata                                          *)
(***************************************************************************)
EmptyMetadata == [mask_ |-> 0, origin_ |-> 0]

\* __builtin_ffs: one plus the index of the lowest set bit, 0 for 0.
RECURSIVE Ffs(_)
Ffs(x) == IF x = 0 THEN 0 ELSE IF x % 2 = 1 THEN 1 ELSE 1 + Ffs(x \div 2)

LeafIterator(md) == [mask_ |-> md.mask_, base_ |-> -1]

\* The rest of Next() that returns base_ + i without advancing base_.
LeafAdvance_KeepsBase(it, i) ==
  IF i = 0 THEN [ret |-> -1, it |-> it]
  ELSE [ret |-> it.base_ + i,
        it  |-> [mask_ |-> it.mask_ \div (2 ^ i), base_ |-> it.base_]]

\* The rest of Next(), i being __builtin_ffs(mask_).
LeafAdvance(it, i) ==
  IF i = 0 THEN [ret |-> -1, it |-> it]
  ELSE [ret |-> it.base_ + i,
        it  |-> [mask_ |-> it.mask_ \div (2 ^ i), base_ |-> it.base_ + i]]

\* Next() returns the value and the advanced iterator.
LeafNext(it) == LeafAdvance(it, Ffs(it.mask_))

HasLeaf(md, index) == (md.mask_ \div (2 ^ index)) % 2 = 1

\* mask_ |= (1U << index), stored back into the kMaskBits-wide field.
SetLeaf(md, index) ==
  IF index >= kMaskBits \/ HasLeaf(md, index) THEN md
  ELSE [md EXCEPT !.mask_ = @ + 2 ^ index]

\* mask_ &= ~(1U << index)
ClearLeaf(md, index) ==
  IF index < kMaskBits /\ HasLeaf(md, index)
  THEN [md EXCEPT !.mask_ = @ - 2 ^ index]
  ELSE md

IsOccupied(md) == md.origin_ # 0

SetOrigin(md, delta_from_origin) ==
  [md EXCEPT !.origin_ = (delta_from_origin + 1) % (2 ^ kOriginBits)]

ClearOrigin(md) == [md EXCEPT !.origin_ = 0]

GetOrigin(md) == IF md.origin_ = 0 THEN -1 ELSE md.origin_ - 1

ClearAll(md) == EmptyMetadata

(***************************************************************************)
(* Bucket and Array                                                        *)
(***************************************************************************)
\* Bucket(): metadata zeroed, payload not constructed.
NewBucket == [md |-> EmptyMetadata, value |-> NoValue]

\* Bucket::operator=(const Bucket&)
BucketCopyAssign(other) ==
  [md |-> other.md,
   value |-> IF IsOccupied(other.md) THEN other.value ELSE NoValue]

capacity(a) == (a.capacity_mask_ + 1) % IndexMod

\* Array(capacity_arg)
NewArray(capacity_arg) ==
  LET mask == (capacity_arg + IndexMod - 1) % IndexMod
      cap  == (mask + 1) % IndexMod
  IN [inlined_  |-> [i \in 1..NumInlinedBuckets |-> NewBucket],
      outlined_ |-> IF cap > NumInlinedBuckets
                    THEN [i \in 1..(cap - NumInlinedBuckets) |-> NewBucket]
                    ELSE <<>>,
      size_ |-> 0,
      capacity_mask_ |-> mask,
      asserts_ |-> TRUE]

GetBucket(a, index) ==
  IF index < NumInlinedBuckets THEN a.inlined_[index + 1]
  ELSE a.outlined_[index - NumInlinedBuckets + 1]

\* *MutableBucket(index) = b
PutBucket(a, index, b) ==
  IF index < NumInlinedBuckets THEN [a EXCEPT !.inlined_[index + 1] = b]
  ELSE [a EXCEPT !.outlined_[index - NumInlinedBuckets + 1] = b]

\* MutableBucket(index)->md = md
PutMd(a, index, md) == PutBucket(a, index, [GetBucket(a, index) EXCEPT !.md = md])

\* MutableBucket(index)->value.New(v)
PutValue(a, index, v) ==
  PutBucket(a, index, [GetBucket(a, index) EXCEPT !.value = v])

\* The assertions of SetLeaf (with the one of HasLeaf), ClearLeaf, SetOrigin.
PreSetLeaf(md, index) == index \in 0..(kMaskBits - 1) /\ ~HasLeaf(md, index)

PreClearLeaf(md, index) == index \in 0..(kMaskBits - 1) /\ HasLeaf(md, index)

PreSetOrigin(delta_from_origin) == delta_from_origin \in 0..(kMaskBits - 1)

\* The array a, on which an assertion of the metadata was evaluated to held.
\* asserts_ is no member of Array: it records that no assertion of the
\* metadata has failed on the array or on an array assigned to it.
Checked(a, held) == [a EXCEPT !.asserts_ = @ /\ held]

\* MutableBucket(index)->md.SetLeaf(d), and the like
SetLeafAt(a, index, d) ==
  Checked(PutMd(a, index, SetLeaf(GetBucket(a, index).md, d)),
          PreSetLeaf(GetBucket(a, index).md, d))

ClearLeafAt(a, index, d) ==
  Checked(PutMd(a, index, ClearLeaf(GetBucket(a, index).md, d)),
          PreClearLeaf(GetBucket(a, index).md, d))

SetOriginAt(a, index, d) ==
  Checked(PutMd(a, index, SetOrigin(GetBucket(a, index).md, d)), PreSetOrigin(d))

ClearOriginAt(a, index) == PutMd(a, index, ClearOrigin(GetBucket(a, index).md))

\* MutableBucket(to)->value.New(std::move(*MutableBucket(from)->value.Mutable()))
\* The payload that was moved from stands for no element.
MoveValue(a, to, from) ==
  PutValue(PutValue(a, to, GetBucket(a, from).value), from, NoValue)

\* The masks of the form 2^i - 1, for which x & mask is x mod (mask + 1).
LowBitMasks == {2 ^ i - 1 : i \in 0..IndexBits}

\* index & capacity_mask_
Clamp(a, index) ==
  IF a.capacity_mask_ \in LowBitMasks
  THEN (index % IndexMod) % (a.capacity_mask_ + 1)
  ELSE BitAnd(index % IndexMod, a.capacity_mask_)

Distance(a, i0, i1) == IF i1 >= i0 THEN i1 - i0 ELSE i1 - i0 + capacity(a)

\* The least of the slots s, kEnd when there is none.
LeastSlot(s) == IF s = {} THEN kEnd ELSE CHOOSE j \in s : \A k \in s : j <= k

\* The first occupied slot from the slot from on, kEnd when there is none.
NextValidElement(a, from) ==
  LeastSlot({j \in from..(capacity(a) - 1) : IsOccupied(GetBucket(a, j).md)})

\* Array::operator=(const Array&) that does not assign size_.
ArrayCopyAssign_KeepsSize(self, other) ==
  [size_ |-> self.size_,
   capacity_mask_ |-> other.capacity_mask_,
   inlined_ |-> [i \in 1..NumInlinedBuckets |-> BucketCopyAssign(other.inlined_[i])],
   outlined_ |-> IF other.outlined_ # <<>>
                 THEN [i \in 1..(capacity(other) - NumInlinedBuckets) |->
                         BucketCopyAssign(other.outlined_[i])]
                 ELSE self.outlined_,
   asserts_ |-> self.asserts_ /\ other.asserts_]

\* Array::operator=(const Array&): the new value of *this.
ArrayCopyAssign(self, other) ==
  [size_ |-> other.size_,
   capacity_mask_ |-> other.capacity_mask_,
   inlined_ |-> [i \in 1..NumInlinedBuckets |-> BucketCopyAssign(other.inlined_[i])],
   outlined_ |-> IF other.outlined_ # <<>>
                 THEN [i \in 1..(capacity(other) - NumInlinedBuckets) |->
                         BucketCopyAssign(other.outlined_[i])]
                 ELSE self.outlined_,
   asserts_ |-> self.asserts_ /\ other.asserts_]

\* Bucket::operator=(Bucket&&): the new value of *this (other's metadata is
\* cleared, its payload is moved from).
BucketMoveAssign(other) ==
  [md |-> other.md,
   value |-> IF IsOccupied(other.md) THEN other.value ELSE NoValue]

\* Array::operator=(Array&&) that does not reset the size_ of other.
ArrayMoveAssign_KeepsOtherSize(self, other) ==
  [self  |-> [size_ |-> other.size_,
              capacity_mask_ |-> other.capacity_mask_,
              inlined_ |-> [i \in 1..NumInlinedBuckets |->
                              BucketMoveAssign(other.inlined_[i])],
              outlined_ |-> other.outlined_,
              asserts_ |-> self.asserts_ /\ other.asserts_],
   other |-> [size_ |-> other.size_,
              capacity_mask_ |-> (NumInlinedBuckets + IndexMod - 1) % IndexMod,
              inlined_ |-> [i \in 1..NumInlinedBuckets |-> NewBucket],
              outlined_ |-> <<>>,
              asserts_ |-> other.asserts_]]

\* Array::operator=(Array&&): the new values of *this and of other.
ArrayMoveAssign(self, other) ==
  [self  |-> [size_ |-> other.size_,
              capacity_mask_ |-> other.capacity_mask_,
              inlined_ |-> [i \in 1..NumInlinedBuckets |->
                              BucketMoveAssign(other.inlined_[i])],
              outlined_ |-> other.outlined_,
              asserts_ |-> self.asserts_ /\ other.asserts_],
   other |-> [size_ |-> 0,
              capacity_mask_ |-> (NumInlinedBuckets + IndexMod - 1) % IndexMod,
              inlined_ |-> [i \in 1..NumInlinedBuckets |-> NewBucket],
              outlined_ |-> <<>>,
              asserts_ |-> other.asserts_]]

(***************************************************************************)
(* InlinedHashTable                                                        *)
(***************************************************************************)
\* Hash is std::hash of an integer key.
Hash(k) == k

\* GetKey::Get of the map: the first component of the element.
ExtractKey(elem) == elem[1]

\* The first fault of two ("none" when there is none).
Worst(f1, f2) == IF f1 # "none" THEN f1 ELSE f2

RECURSIVE FindLoop(_, _, _, _, _)
\* The body of the while loop of FindInArray that gives up at the first leaf
\* whose key differs.
FindAt_FirstLeafOnly(a, k, start_index, n, idx) ==
  IF GetBucket(a, idx).value = NoValue
  THEN [found |-> FALSE, index |-> idx, fault |-> "uninit_read"]
  ELSE IF k = ExtractKey(GetBucket(a, idx).value)
  THEN [found |-> TRUE, index |-> idx, fault |-> "none"]
  ELSE [found |-> FALSE, index |-> idx, fault |-> "none"]

\* The body of the while loop of FindInArray, idx being the new *index.
FindAt(a, k, start_index, n, idx) ==
  IF GetBucket(a, idx).value = NoValue
  THEN \* the payload of a slot that holds no element is compared
       [found |-> FALSE, index |-> idx, fault |-> "uninit_read"]
  ELSE IF k = ExtractKey(GetBucket(a, idx).value)
  THEN [found |-> TRUE, index |-> idx, fault |-> "none"]
  ELSE FindLoop(a, k, start_index, n.it, idx)

\* The test of the while loop of FindInArray, n being what it.Next() gave.
FindNext(a, k, start_index, n, index) ==
  IF n.ret < 0 THEN [found |-> FALSE, index |-> index, fault |-> "none"]
  ELSE FindAt(a, k, start_index, n, Clamp(a, start_index + n.ret))

\* The while loop of FindInArray from the iterator it on, *index being index.
FindLoop(a, k, start_index, it, index) ==
  FindNext(a, k, start_index, LeafNext(it), index)

\* FindInArray: found, and *index (kEnd stands for "never written").
FindInArray(a, k, hash) ==
  IF capacity(a) = 0 THEN [found |-> FALSE, index |-> kEnd, fault |-> "none"]
  ELSE LET start_index == Clamp(a, hash)
       IN FindLoop(a, k, start_index,
                   LeafIterator(GetBucket(a, start_index).md), kEnd)

RECURSIVE CeilLog2(_)
CeilLog2(d) == IF d <= 1 THEN 0 ELSE 1 + CeilLog2((d + 1) \div 2)

\* ComputeCapacity without the rounding to a power of two.
ComputeCapacity_Unrounded(desired) ==
  IF desired < NumInlinedBuckets THEN NumInlinedBuckets ELSE desired

\* ComputeCapacity that first divides the request by a load factor of 0.75.
ComputeCapacity_LoadFactor(desired) ==
  LET d == IF (4 * desired + 2) \div 3 < NumInlinedBuckets
           THEN NumInlinedBuckets ELSE (4 * desired + 2) \div 3
  IN IF d <= 0 THEN d ELSE (2 ^ CeilLog2(d)) % IndexMod

\* ComputeCapacity that answers 32 to a request of 1 without inline buckets.
ComputeCapacity_Default32(desired) ==
  LET d == IF desired < NumInlinedBuckets THEN NumInlinedBuckets ELSE desired
  IN IF desired = 1 /\ NumInlinedBuckets = 0 THEN 32
     ELSE IF d <= 0 THEN d ELSE (2 ^ CeilLog2(d)) % IndexMod

ComputeCapacity(desired) ==
  LET d == IF desired < NumInlinedBuckets THEN NumInlinedBuckets ELSE desired
  IN IF d <= 0 THEN d ELSE (2 ^ CeilLog2(d)) % IndexMod

RECURSIVE CloserLoop(_, _, _)
\* The swap of FindCloserFreeBucket that gives the moved element the origin
\* field it had at its old slot.
CloserSwap_KeepsOrigin(a, free_index, dist, moved_bucket_index, new_free_dist, new_free_bucket_index) ==
  LET a1 == SetLeafAt(a, moved_bucket_index, dist)
      a2 == ClearLeafAt(a1, moved_bucket_index, new_free_dist)
      a3 == MoveValue(a2, free_index, new_free_bucket_index)
      a4 == SetOriginAt(a3, free_index, new_free_dist)
  IN [array |-> ClearOriginAt(a4, new_free_bucket_index),
      index |-> new_free_bucket_index]

\* The swap of FindCloserFreeBucket.
CloserSwap(a, free_index, dist, moved_bucket_index, new_free_dist, new_free_bucket_index) ==
  LET a1 == SetLeafAt(a, moved_bucket_index, dist)
      a2 == ClearLeafAt(a1, moved_bucket_index, new_free_dist)
      a3 == MoveValue(a2, free_index, new_free_bucket_index)
      a4 == SetOriginAt(a3, free_index, dist)
  IN [array |-> ClearOriginAt(a4, new_free_bucket_index),
      index |-> new_free_bucket_index]

\* The body of the loop of FindCloserFreeBucket after the first leaf of
\* moved_bucket was looked up.
CloserTry(a, free_index, dist, moved_bucket_index, new_free_dist) ==
  IF new_free_dist < 0 \/ new_free_dist >= dist
  THEN CloserLoop(a, free_index, dist - 1)
  ELSE CloserSwap(a, free_index, dist, moved_bucket_index, new_free_dist,
                  Clamp(a, moved_bucket_index + new_free_dist))

\* The first leaf of the bucket at moved_bucket_index.
CloserAt(a, free_index, dist, moved_bucket_index) ==
  CloserTry(a, free_index, dist, moved_bucket_index,
            LeafNext(LeafIterator(GetBucket(a, moved_bucket_index).md)).ret)

\* The loop of FindCloserFreeBucket from distance dist downwards.
CloserLoop(a, free_index, dist) ==
  IF dist <= 0 THEN [array |-> a, index |-> kEnd]
  ELSE CloserAt(a, free_index, dist, Clamp(a, free_index + IndexMod - dist))

\* FindCloserFreeBucket with a loop that starts one bucket too far back.
FindCloserFreeBucket_FromHop(a, free_index) ==
  CloserLoop(a, free_index, MaxHopDistance)

FindCloserFreeBucket(a, free_index) == CloserLoop(a, free_index, MaxHopDistance - 1)

RECURSIVE HopLoop(_, _, _)
\* The end of the body of the do-while loop, r being what
\* FindCloserFreeBucket gave.
HopRetry(r, origin_index) ==
  IF r.index # kEnd THEN HopLoop(r.array, origin_index, r.index)
  ELSE [array |-> r.array, result |-> "ARRAY_FULL", index |-> kEnd]

\* The body of the do-while loop of InsertInArray.
HopAt(a, origin_index, free_index, free_distance) ==
  IF free_distance < MaxHopDistance
  THEN [array |-> SetOriginAt(SetLeafAt(a, origin_index, free_distance),
                              free_index, free_distance),
        result |-> "EMPTY_SLOT_FOUND", index |-> free_index]
  ELSE HopRetry(FindCloserFreeBucket(a, free_index), origin_index)

\* The do-while loop of InsertInArray.
HopLoop(a, origin_index, free_index) ==
  HopAt(a, origin_index, free_index, Distance(a, origin_index, free_index))

\* The slot the for loop of InsertInArray breaks at, s being the numbers i of
\* the unoccupied slots origin_index + i of its range: the one of the least i.
FirstFreeIn(a, origin_index, s) ==
  IF s = {} THEN kEnd
  ELSE Clamp(a, origin_index + (CHOOSE j \in s : \A k \in s : j <= k))

\* The scan of InsertInArray for the first unoccupied slot among the slots
\* origin_index + i .. origin_index + limit - 1.
FirstFree(a, origin_index, i, limit) ==
  FirstFreeIn(a, origin_index,
              {j \in i..(limit - 1) : ~IsOccupied(GetBucket(a, Clamp(a, origin_index + j)).md)})

\* InsertInArray after its for loop left free_index.
InsertFrom(a, origin_index, free_index) ==
  IF free_index = kEnd
  THEN [array |-> a, result |-> "ARRAY_FULL", index |-> kEnd]
  ELSE HopLoop(a, origin_index, free_index)

\* InsertInArray from its for loop on.
InsertAround(a, origin_index) ==
  InsertFrom(a, origin_index,
             FirstFree(a, origin_index, 0,
                       IF MaxAddDistance < capacity(a) THEN MaxAddDistance
                       ELSE capacity(a)))

\* InsertInArray: the array, the result and *index_found.
InsertInArray(a, k, hash) ==
  IF capacity(a) = 0
  THEN [array |-> a, result |-> "ARRAY_FULL", index |-> kEnd]
  ELSE InsertAround(a, Clamp(a, hash))

\* The end of the body of the loop of ExpandTable, r being what
\* InsertInArray gave for the element of slot i.
ExpandPut(old, r, i, flt) ==
  IF r.result # "EMPTY_SLOT_FOUND"
  THEN [array |-> r.array, fault |-> Worst(flt, "expand_assert")]
  ELSE [array |-> PutValue(r.array, r.index, GetBucket(old, i).value),
        fault |-> flt]

\* The body of the loop of ExpandTable for an occupied slot i.
ExpandAt(old, new, i, flt, key) ==
  ExpandPut(old, InsertInArray(new, key, Hash(key)), i, flt)

\* The body of the loop of ExpandTable for the slot i, e being the new array
\* and the fault so far: an unoccupied slot is passed over (continue).
ExpandBody(old, e, i) ==
  IF ~IsOccupied(GetBucket(old, i).md) THEN e
  ELSE ExpandAt(old, e.array, i, e.fault, ExtractKey(GetBucket(old, i).value))

\* The iterations of the loop of ExpandTable for the slots lo .. hi - 1 of
\* the old array in ascending order, those of the lower half of the range
\* before those of the upper half.  The loop ends where the assertion fails.
RECURSIVE ExpandLoop(_, _, _, _)
ExpandLoop(old, e, lo, hi) ==
  IF lo >= hi \/ e.fault # "none" THEN e
  ELSE IF hi = lo + 1 THEN ExpandBody(old, e, lo)
  ELSE ExpandLoop(old, ExpandLoop(old, e, lo, (lo + hi) \div 2),
                  (lo + hi) \div 2, hi)

\* The new array of ExpandTable before its loop.
ExpandNew(new_capacity) == [array |-> NewArray(new_capacity), fault |-> "none"]

\* The end of ExpandTable, r being what its loop gave.
ExpandMove(a, r) ==
  [array |-> ArrayMoveAssign(a, [r.array EXCEPT !.size_ = a.size_]).self,
   fault |-> r.fault]

\* ExpandTable that asks for twice the capacity and delta.
ExpandTable_Doubles(a, delta) ==
  ExpandMove(a, ExpandLoop(a, ExpandNew(ComputeCapacity((2 * capacity(a) + delta) % IndexMod)),
                           0, capacity(a)))

\* ExpandTable: the new array_, and whether the assert of the loop failed.
ExpandTable(a, delta) ==
  ExpandMove(a, ExpandLoop(a, ExpandNew(ComputeCapacity((capacity(a) + delta) % IndexMod)),
                           0, capacity(a)))

RECURSIVE InsertLoop(_, _, _, _, _)
\* The end of the body of the loop of Insert, e being what ExpandTable gave.
InsertRetry(e, key, hash, iter, flt) ==
  InsertLoop(e.array, key, hash, iter + 1, Worst(flt, e.fault))

\* The body of the loop of Insert that does not count the new element.
InsertStep_KeepsSize(r, key, hash, iter, flt) ==
  IF r.result = "KEY_FOUND"
  THEN [array |-> r.array, result |-> r.result, index |-> r.index,
        fault |-> flt]
  ELSE IF r.result # "ARRAY_FULL"
  THEN [array |-> r.array, result |-> r.result, index |-> r.index,
        fault |-> flt]
  ELSE InsertRetry(ExpandTable(r.array, 1), key, hash, iter, flt)

\* The body of the loop of Insert, r being what InsertInArray gave.
InsertStep(r, key, hash, iter, flt) ==
  IF r.result = "KEY_FOUND"
  THEN [array |-> r.array, result |-> r.result, index |-> r.index,
        fault |-> flt]
  ELSE IF r.result # "ARRAY_FULL"
  THEN [array |-> [r.array EXCEPT !.size_ = (@ + 1) % IndexMod],
        result |-> r.result, index |-> r.index, fault |-> flt]
  ELSE InsertRetry(ExpandTable(r.array, 1), key, hash, iter, flt)

\* The loop of Insert from iter on; abort() when it ends.
InsertLoop(a, key, hash, iter, flt) ==
  IF iter >= MaxInsertIter
  THEN [array |-> a, result |-> "ABORT", index |-> kEnd,
        fault |-> Worst(flt, "abort")]
  ELSE InsertStep(InsertInArray(a, key, hash), key, hash, iter, flt)

\* Insert after FindInArray gave f.
InsertAfterFind(a, key, hash, f) ==
  IF f.found
  THEN [array |-> a, result |-> "KEY_FOUND", index |-> f.index,
        fault |-> f.fault]
  ELSE InsertLoop(a, key, hash, 0, f.fault)

\* Insert: the array, the result, *index, and the fault met.
Insert(a, key) == InsertAfterFind(a, key, Hash(key), FindInArray(a, key, Hash(key)))

\* insert(value) that assigns the element of a key that is found.
InsertValue_Replaces(r, value) ==
  IF r.result = "ABORT"
  THEN [array |-> r.array, index |-> kEnd, inserted |-> FALSE,
        fault |-> r.fault]
  ELSE [array |-> PutValue(r.array, r.index, value), index |-> r.index,
        inserted |-> r.result # "KEY_FOUND", fault |-> r.fault]

\* insert(value) after its call of Insert returned r: the table, the
\* iterator's index and the inserted flag.
InsertValue(r, value) ==
  IF r.result = "KEY_FOUND"
  THEN [array |-> r.array, index |-> r.index, inserted |-> FALSE,
        fault |-> r.fault]
  ELSE IF r.result = "ABORT"
  THEN [array |-> r.array, index |-> kEnd, inserted |-> FALSE,
        fault |-> r.fault]
  ELSE [array |-> PutValue(r.array, r.index, value), index |-> r.index,
        inserted |-> TRUE, fault |-> r.fault]

insert(a, value) == InsertValue(Insert(a, ExtractKey(value)), value)

\* begin() that starts the search at slot 1.
begin_FromOne(a) == NextValidElement(a, 1)

begin(a) == NextValidElement(a, 0)

end == kEnd

\* The iterator find makes of what FindInArray gave.
FoundAt(f) == IF f.found THEN f.index ELSE end

\* find(k): the index of the iterator returned.
find(a, k) == FoundAt(FindInArray(a, k, Hash(k)))

empty(a) == a.size_ = 0

size(a) == a.size_

\* clear() that passes over the heap slots.
clear_InlinedOnly(a) ==
  [a EXCEPT
     !.inlined_ = [i \in 1..NumInlinedBuckets |-> NewBucket],
     !.size_ = 0]

\* clear() that gives the heap array back and returns to the inline capacity.
clear_Shrinks(a) == NewArray(NumInlinedBuckets)

\* clear(): the table after the call.
clear(a) ==
  [a EXCEPT
     !.inlined_ = [i \in 1..NumInlinedBuckets |-> NewBucket],
     !.outlined_ = IF a.outlined_ # <<>>
                   THEN [i \in 1..Len(a.outlined_) |->
                           IF i - 1 < capacity(a) - NumInlinedBuckets
                           THEN NewBucket ELSE a.outlined_[i]]
                   ELSE a.outlined_,
     !.size_ = 0]

\* erase(iterator) that leaves the leaf bit of the origin bucket set.
EraseAt_KeepsLeaf(a, index_, delta) ==
  [PutValue(ClearOriginAt(a, index_), index_, NoValue)
     EXCEPT !.size_ = (@ + IndexMod - 1) % IndexMod]

\* erase(iterator) that clears every leaf bit of the origin bucket.
EraseAt_ClearsMask(a, index_, delta) ==
  LET a1 == PutValue(ClearOriginAt(a, index_), index_, NoValue)
      ob == Clamp(a, index_ + IndexMod - delta)
      a2 == PutMd(a1, ob, [GetBucket(a1, ob).md EXCEPT !.mask_ = 0])
  IN [a2 EXCEPT !.size_ = (@ + IndexMod - 1) % IndexMod]

\* erase(iterator) up to the decrement of size_, delta being the distance
\* of the slot from its origin.
EraseAt(a, index_, delta) ==
  LET a1 == PutValue(ClearOriginAt(a, index_), index_, NoValue)
      a2 == ClearLeafAt(a1, Clamp(a, index_ + IndexMod - delta), delta)
  IN [a2 EXCEPT !.size_ = (@ + IndexMod - 1) % IndexMod]

\* The iterator erase(iterator) returns.
EraseNext(a, index_) == [array |-> a, index |-> NextValidElement(a, index_ + 1)]

\* erase(iterator) without the decrement of size_.
erase_it_KeepsSize(a, index_) ==
  EraseNext([EraseAt(a, index_, GetOrigin(GetBucket(a, index_).md))
               EXCEPT !.size_ = a.size_], index_)

\* erase(iterator) that returns the iterator advanced twice.
erase_it_SkipsNext(a, index_) ==
  LET a3 == EraseAt(a, index_, GetOrigin(GetBucket(a, index_).md))
  IN [array |-> a3, index |-> NextValidElement(a3, index_ + 2)]

\* erase(iterator): the table and the index of the iterator returned.
erase_it(a, index_) ==
  EraseNext(EraseAt(a, index_, GetOrigin(GetBucket(a, index_).md)), index_)

\* erase(key) after find gave the iterator of index i.
EraseFound(a, i) ==
  IF i = end THEN [array |-> a, count |-> 0]
  ELSE [array |-> erase_it(a, i).array, count |-> 1]

\* erase(key) that reports an erased element whatever it found.
erase_CountsAlways(a, k) ==
  [array |-> EraseFound(a, find(a, k)).array, count |-> 1]

\* erase(key): the table and the count returned.
erase(a, k) == EraseFound(a, find(a, k))

\* The mapped value of a default-constructed element.
DefaultValue == 0

\* operator[] after its call of Insert returned r.
IndexResult(r, k) ==
  IF r.result = "ABORT"
  THEN [array |-> r.array, index |-> kEnd, inserted |-> FALSE, fault |-> r.fault]
  ELSE IF r.result # "KEY_FOUND"
  THEN [array |-> PutValue(r.array, r.index, <<k, DefaultValue>>),
        index |-> r.index, inserted |-> TRUE, fault |-> r.fault]
  ELSE [array |-> r.array, index |-> r.index, inserted |-> FALSE,
        fault |-> r.fault]

\* operator[] that leaves the key of the new element default-constructed.
index_op_DefaultKey(a, k) ==
  LET r == Insert(a, k) IN
  IF r.result = "ABORT"
  THEN [array |-> r.array, index |-> kEnd, inserted |-> FALSE, fault |-> r.fault]
  ELSE IF r.result # "KEY_FOUND"
  THEN [array |-> PutValue(r.array, r.index, <<0, DefaultValue>>),
        index |-> r.index, inserted |-> TRUE, fault |-> r.fault]
  ELSE [array |-> r.array, index |-> r.index, inserted |-> FALSE,
        fault |-> r.fault]

\* InlinedHashMap::operator[]: the table, the slot whose mapped value is
\* referred to, and whether the key was inserted.
index_op(a, k) == IndexResult(Insert(a, k), k)

\* InlinedHashTable::operator=(const InlinedHashTable&)
CopyAssign(self, other) == ArrayCopyAssign(self, other)

\* InlinedHashTable::operator=(InlinedHashTable&&)
MoveAssign(self, other) == ArrayMoveAssign(self, other)

(***************************************************************************)
(* The clients: one table m operated through the public interface next to  *)
(* a reference map (model), and a second table m2 for copy and move.       *)
(*                                                                         *)
(* A workload fixes the keys the client uses.  Its ordered keys are        *)
(* inserted in a fixed order and erased in the reverse order; its free     *)
(* keys are inserted, looked up and erased in any order once all but Band  *)
(* of the ordered keys are in the table.                                   *)
(*   sparse   no ordered keys: a small table                               *)
(*   dense    ordered keys 31, 0, 1, 2, ...: one key per bucket            *)
(*   collide  ordered keys 0, 32, 64, ...: all keys in one bucket          *)
(*   copy     ordered keys 0, 1, 2, ... and two tables                     *)
(*   probe    ordered keys 767, 255, 256, ..., 382 in a table of 256 slots: *)
(*            a run of MaxAddDistance + 1 occupied slots from slot 255 on   *)
(*   blocked  ordered keys 0, 256, ..., 6656 (27 keys of bucket 0), then    *)
(*            27, 28, ..., 40 (one key per bucket behind them)              *)
(***************************************************************************)
\* The instantiations of NumInlinedBuckets with the workload run on each.
Instances == {<<"sparse", 0>>, <<"sparse", 8>>, <<"dense", 8>>, <<"collide", 0>>}

Values == 1..NumValues

\* The number of keys of consecutive buckets of the blocked workload.
BlockedRun == 14

\* The bucket count the table of the probe workload is constructed with.
ProbeHint == 256

NF == CASE workload = "sparse" -> 0
        [] workload = "copy" -> NumCopyKeys
        [] workload = "probe" -> MaxAddDistance + 1
        [] workload = "blocked" -> MaxHopDistance + BlockedRun
        [] OTHER -> NumFillers

Band == IF workload = "copy" THEN NumCopyKeys ELSE 1

\* The i-th ordered key.
FillKey(i) ==
  CASE workload = "collide" -> 32 * i
    [] workload = "dense" -> IF i = 0 THEN 31 ELSE i - 1
    [] workload = "alias" -> 256 * i
    [] workload = "mixed" -> IF i % 2 = 0 THEN 32 * (i \div 2) ELSE (i + 1) \div 2
    [] workload = "blocked" -> IF i < MaxHopDistance THEN 256 * i ELSE i
    [] workload = "probe" -> IF i = 0 THEN 3 * ProbeHint - 1 ELSE ProbeHint - 2 + i
    [] OTHER -> i

\* The free keys: 31 and 63 share the last bucket of a table of up to 32
\* slots, 1024 and 2048 belong to the first bucket of a table of up to 1024.
WActive ==
  CASE workload = "sparse" -> {31, 63, 1024}
    [] workload = "dense" -> {63, 1024}
    [] workload = "collide" -> {1024, 2048}
    [] workload = "alias" -> {256 * NumFillers, 128}
    [] workload = "probe" -> {5 * ProbeHint - 1}
    [] workload = "blocked" -> {128}
    [] OTHER -> {}

WFillers == {FillKey(i) : i \in 0..(NF - 1)}

WKeys == WFillers \cup WActive

AllKeys == IF workload \in {"probe", "blocked"} THEN WKeys
           ELSE (0..NumFillers) \cup {32 * i : i \in 0..NumFillers}
                \cup (0..NumCopyKeys) \cup {31, 63, 1024, 2048}
                \cup {256 * i : i \in 0..NumFillers}

\* The reference map holds Absent for a key it does not contain.
Absent == -1

EmptyModel == [k \in AllKeys |-> Absent]

Present(k) == model[k] # Absent

ModelKeys(mod) == {k \in AllKeys : mod[k] # Absent}

\* The value the ordered key k is inserted with.
FillValue(k) == 1 + (k % NumValues)

FreeKeys == IF nf >= NF - Band THEN WActive ELSE {}

\* The ordered key that is inserted next, and the one inserted last.
NextKey == IF nf < NF THEN {FillKey(nf)} ELSE {}

TopKey == IF nf > 0 THEN {FillKey(nf - 1)} ELSE {}

\* The keys an operation that inserts an absent key is applied to.
InsertKeys == FreeKeys \cup NextKey \cup TopKey

\* The keys an operation that erases a present key is applied to.
EraseKeys == FreeKeys \cup NextKey \cup (IF nf > NF - Band THEN TopKey ELSE {})

\* The keys that are looked up.
FindKeys == FreeKeys \cup NextKey \cup TopKey

\* The number of ordered keys after k was inserted or erased.
NfPlus(k) == IF ~Present(k) /\ k \notin WActive THEN nf + 1 ELSE nf

NfMinus(k) == IF Present(k) /\ k \notin WActive THEN nf - 1 ELSE nf

B2I(b) == IF b THEN 1 ELSE 0

\* A metadata word, the LeafIterator made of it and the values its Next()
\* has returned so far.
LeafStart(md) == [md |-> md, it |-> LeafIterator(md), rets |-> <<>>]

\* The operation applied last, what it returned and what the reference did.
Op(op, ret, oret) == [op |-> op, ret |-> ret, oret |-> oret]

InitTables ==
  /\ m = NewArray(ComputeCapacity(0))
  /\ m2 = NewArray(ComputeCapacity(0))
  /\ model = EmptyModel
  /\ model2 = EmptyModel
  /\ nf = 0
  /\ nf2 = 0
  /\ last = Op("init", 0, 0)
  /\ fault = "none"

Init ==
  /\ \E inst \in Instances : workload = inst[1] /\ NumInlinedBuckets = inst[2]
  /\ InitTables
  /\ leaf = LeafStart(EmptyMetadata)

InitCopy ==
  /\ workload = "copy"
  /\ NumInlinedBuckets \in {0, 8}
  /\ InitTables
  /\ leaf = LeafStart(EmptyMetadata)

\* t.insert(std::make_pair(k, v)) next to model.insert(...)
DoInsert ==
  \E k \in InsertKeys :
    /\ fault = "none"
    /\ \E called \in {Insert(m, k)} : \E v \in Values :
         /\ k \in WActive \/ Present(k) \/ v = FillValue(k)
         /\ \E r \in {InsertValue(called, <<k, v>>)} :
              /\ m' = r.array
              /\ fault' = r.fault
              /\ last' = Op("insert", B2I(r.inserted), B2I(~Present(k)))
         /\ model' = IF Present(k) THEN model ELSE [model EXCEPT ![k] = v]
    /\ nf' = NfPlus(k)
    /\ UNCHANGED <<leaf, NumInlinedBuckets, workload, nf2, m2, model2>>

\* t.find(k) next to model.find(k)
DoFind ==
  \E k \in FindKeys :
    /\ fault = "none"
    /\ \E f \in {FindInArray(m, k, Hash(k))} :
         /\ fault' = f.fault
         /\ last' = Op("find", B2I(FoundAt(f) # end), B2I(Present(k)))
    /\ UNCHANGED <<leaf, NumInlinedBuckets, workload, nf, nf2, m, m2, model, model2>>

\* t.erase(k) next to model.erase(k)
DoErase ==
  \E k \in EraseKeys :
    /\ fault = "none"
    /\ \E f \in {FindInArray(m, k, Hash(k))} :
         /\ fault' = f.fault
         /\ \E r \in {EraseFound(m, FoundAt(f))} :
              /\ m' = r.array
              /\ last' = Op("erase", r.count, B2I(Present(k)))
    /\ model' = [model EXCEPT ![k] = Absent]
    /\ nf' = NfMinus(k)
    /\ UNCHANGED <<leaf, NumInlinedBuckets, workload, nf2, m2, model2>>

\* it = t.erase(it) for an iterator it that begin() and ++ reach
DoEraseIt ==
  \E i \in 0..(capacity(m) - 1) :
    /\ fault = "none"
    /\ IsOccupied(GetBucket(m, i).md)
    /\ \E k \in {ExtractKey(GetBucket(m, i).value)} :
         /\ k \in EraseKeys
         /\ \E r \in {erase_it(m, i)} :
              /\ m' = r.array
              /\ last' = Op("erase_it", B2I(r.index # end), 1)
         /\ model' = [model EXCEPT ![k] = Absent]
         /\ nf' = NfMinus(k)
    /\ UNCHANGED <<leaf, NumInlinedBuckets, workload, nf2, m2, model2, fault>>

\* t.clear() next to model.clear()
DoClear ==
  /\ fault = "none"
  /\ m' = clear(m)
  /\ model' = EmptyModel
  /\ last' = Op("clear", 0, 0)
  /\ nf' = 0
  /\ UNCHANGED <<leaf, NumInlinedBuckets, workload, nf2, m2, model2, fault>>

\* t[k] (w = 0) and t[k] = w (w in Values)
DoIndex ==
  \E k \in InsertKeys :
    /\ fault = "none"
    /\ \E r \in {index_op(m, k)} : \E w \in {0} \cup Values :
         /\ k \in WActive \/ (IF Present(k) THEN w = 0 ELSE w = FillValue(k))
         /\ m' = IF w = 0 \/ r.index = kEnd THEN r.array
                 ELSE PutValue(r.array, r.index, <<k, w>>)
         /\ fault' = r.fault
         /\ last' = Op("index", B2I(r.inserted), B2I(~Present(k)))
         /\ model' = [model EXCEPT ![k] =
                        IF w # 0 THEN w
                        ELSE IF @ = Absent THEN DefaultValue ELSE @]
    /\ nf' = NfPlus(k)
    /\ UNCHANGED <<leaf, NumInlinedBuckets, workload, nf2, m2, model2>>

\* m2 = m
DoCopy ==
  /\ fault = "none"
  /\ m2' = CopyAssign(m2, m)
  /\ model2' = model
  /\ nf2' = nf
  /\ last' = Op("copy", 0, 0)
  /\ UNCHANGED <<leaf, NumInlinedBuckets, workload, nf, m, model, fault>>

\* m = m2
DoCopyBack ==
  /\ fault = "none"
  /\ m' = CopyAssign(m, m2)
  /\ model' = model2
  /\ nf' = nf2
  /\ last' = Op("copy_back", 0, 0)
  /\ UNCHANGED <<leaf, NumInlinedBuckets, workload, nf2, m2, model2, fault>>

\* m2 = std::move(m)
DoMove ==
  /\ fault = "none"
  /\ \E r \in {MoveAssign(m2, m)} : m2' = r.self /\ m' = r.other
  /\ model2' = model
  /\ model' = EmptyModel
  /\ nf2' = nf
  /\ nf' = 0
  /\ last' = Op("move", 0, 0)
  /\ UNCHANGED <<leaf, NumInlinedBuckets, workload, fault>>

Next ==
  \/ DoInsert
  \/ DoFind
  \/ DoErase
  \/ DoEraseIt
  \/ DoClear
  \/ DoIndex

Spec == Init /\ [][Next]_vars

NextCopy ==
  \/ DoInsert
  \/ DoErase
  \/ DoClear
  \/ DoCopy
  \/ DoCopyBack
  \/ DoMove

SpecCopy == InitCopy /\ [][NextCopy]_vars

\* The hash values of the clients of a default-constructed table of inline
\* capacity 8: all in one bucket, consecutive buckets from the last bucket
\* on, and every second key in the first bucket.
GrowInstances == {<<"collide", 8>>, <<"dense", 8>>, <<"mixed", 8>>}

InitGrow ==
  /\ \E inst \in GrowInstances : workload = inst[1] /\ NumInlinedBuckets = inst[2]
  /\ InitTables
  /\ leaf = LeafStart(EmptyMetadata)

SpecGrow == InitGrow /\ [][Next]_vars

\* Every workload of one table that starts from a default-constructed table.
InitAll ==
  /\ \E inst \in Instances \cup GrowInstances :
       workload = inst[1] /\ NumInlinedBuckets = inst[2]
  /\ InitTables
  /\ leaf = LeafStart(EmptyMetadata)

SpecAll == InitAll /\ [][Next]_vars

\* Keys with distinct hash values that agree in their low 8 bits.
AliasInstances == {<<"alias", 0>>, <<"alias", 8>>}

InitAlias ==
  /\ \E inst \in AliasInstances : workload = inst[1] /\ NumInlinedBuckets = inst[2]
  /\ InitTables
  /\ leaf = LeafStart(EmptyMetadata)

SpecAlias == InitAlias /\ [][Next]_vars

\* A table constructed with a bucket count of ProbeHint whose client inserts
\* keys of consecutive hash values behind a key of the last bucket, and a
\* default-constructed table whose client fills a bucket and the slots behind
\* its neighbourhood.
InitProbe ==
  /\ workload \in {"probe", "blocked"}
  /\ NumInlinedBuckets = 8
  /\ m = NewArray(ComputeCapacity(IF workload = "probe" THEN ProbeHint ELSE 0))
  /\ m2 = NewArray(ComputeCapacity(0))
  /\ model = EmptyModel
  /\ model2 = EmptyModel
  /\ nf = 0
  /\ nf2 = 0
  /\ last = Op("init", 0, 0)
  /\ fault = "none"
  /\ leaf = LeafStart(EmptyMetadata)

SpecProbe == InitProbe /\ [][Next]_vars

\* The bucket-count hints a table is constructed with.
Hints == 0..MaxHint

\* m = Table(hint): InlinedHashTable(bucket_count, hash, equal_to), moved into m
DoConstruct ==
  \E hint \in Hints :
    /\ fault = "none"
    /\ \E r \in {MoveAssign(m, NewArray(ComputeCapacity(hint)))} : m' = r.self
    /\ model' = EmptyModel
    /\ nf' = 0
    /\ last' = Op("construct", hint, 0)
    /\ UNCHANGED <<leaf, NumInlinedBuckets, workload, nf2, m2, model2, fault>>

NextHint ==
  \/ DoConstruct
  \/ DoInsert
  \/ DoErase
  \/ DoClear
  \/ DoCopy
  \/ DoCopyBack
  \/ DoMove

SpecHint == InitCopy /\ [][NextHint]_vars

\* The masks of kMaskBits bits with at most n bits set.
RECURSIVE SparseMasks(_)
SparseMasks(n) ==
  IF n = 0 THEN {0}
  ELSE {SetLeaf([mask_ |-> x, origin_ |-> 0], b).mask_ :
          x \in SparseMasks(n - 1), b \in 0..(kMaskBits - 1)}

\* The masks a LeafIterator is made of, the one of LeafIterator.Basic
\* (SetLeaf of 0, 1, 5, 8, 9 and 21) among them.
LeafMasks ==
  SparseMasks(MaxLeafBits)
    \cup {2 ^ kMaskBits - 1 - x : x \in SparseMasks(MaxLeafHoles)}
    \cup {2 ^ 0 + 2 ^ 1 + 2 ^ 5 + 2 ^ 8 + 2 ^ 9 + 2 ^ 21}

\* HopScotchHashTableBucketMetadata md with the leaf bits of a mask set, and
\* LeafIterator it(&md)
InitLeaf ==
  /\ workload = "sparse"
  /\ NumInlinedBuckets = 8
  /\ InitTables
  /\ \E mask \in LeafMasks : leaf = LeafStart([mask_ |-> mask, origin_ |-> 0])

\* it.Next(), called again MaxExhausted times at most once it returned -1.
DoLeafNext ==
  /\ Cardinality({j \in 1..Len(leaf.rets) : leaf.rets[j] = -1}) <= MaxExhausted
  /\ \E r \in {LeafNext(leaf.it)} :
       leaf' = [leaf EXCEPT !.it = r.it, !.rets = Append(@, r.ret)]
  /\ UNCHANGED <<NumInlinedBuckets, workload, nf, nf2, m, m2, model, model2, last, fault>>

NextLeaf == DoLeafNext

SpecLeaf == InitLeaf /\ [][NextLeaf]_vars

(***************************************************************************)
(* Observations of a table used by the properties.                         *)
(***************************************************************************)
Slots(a) == 0..(capacity(a) - 1)

\* The slots whose metadata says "occupied".
Live(a) == {i \in Slots(a) : IsOccupied(GetBucket(a, i).md)}

\* The elements of the occupied slots.
Elements(a) == {GetBucket(a, i).value : i \in Live(a)}

\* The element find(k) points to, NoValue for end().
FindPair(a, k) ==
  LET i == find(a, k) IN IF i = end THEN NoValue ELSE GetBucket(a, i).value

\* The slots visited by for (it = begin(); it != end(); ++it), in order.
RECURSIVE Iterate(_, _)
Iterate(a, it) ==
  IF it = end THEN <<>>
  ELSE <<it>> \o Iterate(a, NextValidElement(a, it + 1))

IterSeq(a) == Iterate(a, begin(a))

IterKeys(a) ==
  LET s == IterSeq(a) IN {ExtractKey(GetBucket(a, s[j]).value) : j \in 1..Len(s)}

(***************************************************************************)
(* C1  Oracle equivalence.  After every operation of a run from the empty  *)
(* table, the flag returned by insert and the count returned by erase are  *)
(* those of the reference map, and size(), empty(), the presence of every  *)
(* key through find and the keys met by iterating from begin() to end()    *)
(* are those of the reference map; no operation aborts.                    *)
(***************************************************************************)
C1_OracleEquivalence ==
  LET keys == ModelKeys(model) IN
  /\ fault = "none"
  /\ last.op \in {"insert", "erase", "find"} => last.ret = last.oret
  /\ size(m) = Cardinality(keys)
  /\ empty(m) <=> keys = {}
  /\ \A k \in WKeys : (find(m, k) # end) <=> Present(k)
  /\ IterKeys(m) = keys
  /\ Len(IterSeq(m)) = Cardinality(keys)

\* An erase of a present key has acted on a table that was resized.
C1_Witness ==
  /\ last.op = "erase" /\ last.ret = 1
  /\ capacity(m) >= 32
  /\ size(m) > 0

(***************************************************************************)
(* C2  Round trip.  The reference map holds, for every key whose insert    *)
(* returned inserted = true and that was neither erased nor cleared nor    *)
(* assigned since, the value v that was inserted.  In every state reached, *)
(* whatever inserts and erases of other keys, resizes and displacements    *)
(* happened since, find(k) points to (k, v); and insert returned           *)
(* inserted = true exactly when the key was new.                           *)
(***************************************************************************)
C2_RoundTrip ==
  /\ last.op = "insert" => last.ret = last.oret
  /\ \A k \in WKeys : Present(k) => FindPair(m, k) = <<k, model[k]>>

\* The element of key 0, inserted into slot 0 of a table of 8 slots, was
\* displaced to slot 26 of the table of 32 slots and is found there.
C2_Witness ==
  /\ workload = "dense"
  /\ find(m, 0) = 26
  /\ FindPair(m, 0) = <<0, FillValue(0)>>
  /\ last.op = "insert" /\ last.ret = 1

(***************************************************************************)
(* C3  Idempotence of insert.  For every live element (k, v1) and every    *)
(* v2, insert((k, v2)) returns inserted = false with an iterator to the    *)
(* slot of the element and leaves the whole table (size, capacity, every   *)
(* slot) as it was.                                                        *)
(***************************************************************************)
C3_InsertIdempotent ==
  \A i \in Live(m) :
    LET k == ExtractKey(GetBucket(m, i).value)
        called == Insert(m, k)
    IN \A v2 \in Values :
         LET r == InsertValue(called, <<k, v2>>) IN
         /\ r.inserted = FALSE
         /\ r.index = i
         /\ r.array = m
         /\ r.fault = "none"

\* An insert of a key that was live has acted.
C3_Witness ==
  /\ last.op = "insert" /\ last.ret = 0
  /\ size(m) >= 2

(***************************************************************************)
(* C4  Erase/insert symmetry.  For a key k that is not in the table,       *)
(* insert of k and then erase(k) leave find(k) = end() and size() as       *)
(* before the insert, and every element that was live is still found.      *)
(***************************************************************************)
C4_InsertEraseSymmetry ==
  \A k \in {x \in InsertKeys : find(m, x) = end} :
    LET called == Insert(m, k) IN
    \A v \in Values :
      LET r1 == InsertValue(called, <<k, v>>)
          r2 == erase(r1.array, k)
      IN /\ r1.inserted
         /\ r2.count = 1
         /\ find(r2.array, k) = end
         /\ size(r2.array) = size(m)
         /\ \A e \in Elements(m) : FindPair(r2.array, ExtractKey(e)) = e

\* An erase has acted, and there are a key to insert and a live element
\* in a table that was resized.
C4_Witness ==
  /\ last.op = "erase" /\ last.ret = 1
  /\ \E x \in InsertKeys : find(m, x) = end
  /\ size(m) >= 2
  /\ capacity(m) > NumInlinedBuckets

(***************************************************************************)
(* C5  erase(key) returns 1 and removes the element when the key is live;  *)
(* it returns 0 and leaves the whole table as it was when the key is not.  *)
(***************************************************************************)
C5_EraseByKey ==
  LET elems == Elements(m) IN
  \A k \in WKeys :
    LET r == erase(m, k) IN
    IF \E e \in elems : ExtractKey(e) = k
    THEN /\ r.count = 1
         /\ find(r.array, k) = end
         /\ Elements(r.array) = {e \in elems : ExtractKey(e) # k}
         /\ size(r.array) = size(m) - 1
    ELSE /\ r.count = 0
         /\ r.array = m

\* An erase of an absent key has acted on a table that holds elements.
C5_Witness ==
  /\ last.op = "erase" /\ last.ret = 0
  /\ size(m) >= 2

(***************************************************************************)
(* C6  Iterator coverage.  In every state reached, stepping an iterator    *)
(* from begin() with ++ until end() visits the live slots and no other     *)
(* slot, each once (in increasing order, size() of them), and begin() is   *)
(* end() exactly when the table is empty.                                  *)
(***************************************************************************)
C6_IteratorCoverage ==
  LET s == IterSeq(m) IN
  /\ {s[j] : j \in 1..Len(s)} = Live(m)
  /\ \A i, j \in 1..Len(s) : i < j => s[i] < s[j]
  /\ Len(s) = size(m)
  /\ (begin(m) = end) <=> empty(m)

\* The iteration of a resized table passes over free slots, the first slot
\* among them, and visits several elements.
C6_Witness ==
  /\ capacity(m) > NumInlinedBuckets
  /\ ~IsOccupied(GetBucket(m, 0).md)
  /\ Len(IterSeq(m)) >= 3
  /\ Len(IterSeq(m)) < capacity(m) - 1
  /\ last.op = "erase"

\* it = begin(); while (it != end()) it = erase(it);
RECURSIVE EraseLoop(_, _)
EraseLoop(a, it) ==
  IF it = end THEN a
  ELSE LET r == erase_it(a, it) IN EraseLoop(r.array, r.index)

(***************************************************************************)
(* C7  erase(iterator).  For every live slot i, erase of an iterator to i  *)
(* removes the element of slot i and no other, decrements size() by one    *)
(* and returns an iterator to the live slot of the least index above i,    *)
(* or end() when there is none; it = erase(it) repeated from begin() until *)
(* end() leaves the table empty.                                           *)
(***************************************************************************)
C7_EraseIterator ==
  /\ LET live == Live(m) IN
     \A i \in live :
       LET r == erase_it(m, i)
           k == ExtractKey(GetBucket(m, i).value)
           later == {j \in live : j > i}
       IN /\ Live(r.array) = live \ {i}
          /\ \A j \in live \ {i} :
               GetBucket(r.array, j).value = GetBucket(m, j).value
          /\ find(r.array, k) = end
          /\ size(r.array) = size(m) - 1
          /\ capacity(r.array) = capacity(m)
          /\ r.index = IF later = {} THEN end
                       ELSE CHOOSE j \in later : \A j2 \in later : j <= j2
  /\ LET e == EraseLoop(m, begin(m)) IN
     /\ size(e) = 0
     /\ empty(e)
     /\ Live(e) = {}
     /\ begin(e) = end

\* erase(iterator) has acted and returned an iterator to a live slot, and
\* elements are left in the table.
C7_Witness ==
  /\ last.op = "erase_it" /\ last.ret = 1
  /\ size(m) >= 2

C9_Clear ==
  LET c == clear(m)
      fresh == NewArray(capacity(m))
  IN /\ size(c) = 0
     /\ empty(c)
     /\ begin(c) = end
     /\ \A k \in WKeys : find(c, k) = end
     /\ \A i \in Slots(c) :
          /\ GetBucket(c, i).md.mask_ = 0
          /\ GetBucket(c, i).md.origin_ = 0
     /\ capacity(c) = capacity(m)
     /\ \A i \in Slots(c) : GetBucket(c, i) = GetBucket(fresh, i)
     /\ \A k \in WKeys :
          LET called1 == Insert(c, k)
              called2 == Insert(fresh, k)
          IN /\ called1.result = called2.result
             /\ called1.index = called2.index
             /\ called1.fault = called2.fault
             /\ size(called1.array) = size(called2.array)
             /\ capacity(called1.array) = capacity(called2.array)
             /\ \A i \in Slots(called1.array) :
                  GetBucket(called1.array, i) = GetBucket(called2.array, i)
             /\ \A v \in Values :
                  LET r1 == InsertValue(called1, <<k, v>>)
                      r2 == InsertValue(called2, <<k, v>>)
                  IN /\ r1.inserted /\ r2.inserted
                     /\ r1.index = r2.index
                     /\ GetBucket(r1.array, r1.index).value = <<k, v>>
                     /\ GetBucket(r2.array, r2.index).value = <<k, v>>

\* clear() has acted on a table that was resized.
C9_Witness ==
  /\ last.op = "clear"
  /\ capacity(m) >= 32
  /\ size(m) = 0

(***************************************************************************)
(* C10  Copy.  Every step m2 = m leaves m as it was and makes m2 hold the  *)
(* elements of m and no other: find gives in m2 the element it gives in m  *)
(* for every key, without reading a slot that holds no element, and size() *)
(* and capacity() of m2 are those of m.                                    *)
(***************************************************************************)
C10_Copy ==
  [][last'.op = "copy" =>
       /\ m' = m
       /\ Elements(m2') = Elements(m)
       /\ \A k \in WKeys :
            /\ FindPair(m2', k) = FindPair(m, k)
            /\ FindInArray(m2', k, Hash(k)).fault = "none"
       /\ IterKeys(m2') = IterKeys(m)
       /\ size(m2') = size(m)
       /\ capacity(m2') = capacity(m)]_vars

\* m2 = m has acted on an m2 whose capacity was larger than that of m: m2
\* still owns the heap array of the larger capacity.
C10_Witness ==
  /\ last.op = "copy"
  /\ capacity(m2) = NumInlinedBuckets
  /\ Len(m2.outlined_) > 0
  /\ size(m2) > 0

\* The buckets ~Array runs ~Bucket on (the inline ones and the whole heap
\* array) that hold a payload to destroy.
OwnedPayloads(a) ==
  {<<"inlined", i>> : i \in {j \in 1..Len(a.inlined_) : IsOccupied(a.inlined_[j].md)}}
  \cup
  {<<"outlined", i>> : i \in {j \in 1..Len(a.outlined_) : IsOccupied(a.outlined_[j].md)}}

(***************************************************************************)
(* C11  Move.  Every step m2 = std::move(m) gives m2 the elements and the  *)
(* size m had, and leaves m empty: size() 0, find of every key end(),      *)
(* capacity NumInlinedBuckets, the metadata of every bucket cleared and no *)
(* bucket left that its destructor would destroy a payload of; an insert   *)
(* into the moved-from m then stores its element.                          *)
(***************************************************************************)
C11_Move ==
  [][last'.op = "move" =>
       /\ Elements(m2') = Elements(m)
       /\ \A k \in WKeys :
            /\ FindPair(m2', k) = FindPair(m, k)
            /\ FindInArray(m2', k, Hash(k)).fault = "none"
       /\ size(m2') = size(m)
       /\ size(m') = 0
       /\ empty(m')
       /\ begin(m') = end
       /\ capacity(m') = NumInlinedBuckets
       /\ \A k \in WKeys : find(m', k) = end
       /\ \A i \in Slots(m') : GetBucket(m', i).md = EmptyMetadata
       /\ OwnedPayloads(m') = {}
       /\ \A k \in WKeys :
            /\ insert(m', <<k, FillValue(k)>>).inserted
            /\ insert(m', <<k, FillValue(k)>>).fault = "none"
            /\ size(insert(m', <<k, FillValue(k)>>).array) = 1
            /\ FindPair(insert(m', <<k, FillValue(k)>>).array, k) = <<k, FillValue(k)>>]_vars

\* m2 = std::move(m) has acted on an m that held elements in its heap array.
C11_Witness ==
  /\ last.op = "move"
  /\ size(m2) > NumInlinedBuckets
  /\ Len(m2.outlined_) > 0
  /\ size(m) = 0


\* C12: power-of-two capacity: in every state reached by construction with a
\* bucket-count hint, insert, erase, clear, copy and move, the capacity of
\* each table is zero or a power of two, and capacity_mask_ is capacity - 1
\* (all ones for capacity zero).
C12_PowerOfTwoCapacity ==
  \A a \in {m, m2} :
    /\ capacity(a) \in {0} \cup {2 ^ i : i \in 0..(IndexBits - 1)}
    /\ a.capacity_mask_ = (capacity(a) + IndexMod - 1) % IndexMod

C12_Witness ==
  /\ last.op = "move"
  /\ NumInlinedBuckets = 0
  /\ capacity(m) = 0
  /\ m.capacity_mask_ = IndexMod - 1
  /\ capacity(m2) = 32
  /\ size(m2) > 0


\* C13: capacity monotonicity: over any sequence of inserts, also interleaved
\* with lookups, erase and clear, on one table, capacity() never decreases.
C13_CapacityMonotone == [][capacity(m') >= capacity(m)]_vars

\* A clear and an erase after the table has grown beyond its inline capacity.
C13_Witness ==
  /\ last.op \in {"clear", "erase", "erase_it"}
  /\ capacity(m) >= 32
  /\ size(m) = 0


\* C14: load-factor bound as claimed: after every insert,
\* size <= max(N, capacity * MaxLoadFactor) with MaxLoadFactor = 0.75
\* (stated over integers: 4 * size <= max(4 * N, 3 * capacity)).
C14_LoadFactorBound ==
  last.op \in {"insert", "index"} =>
    4 * size(m) <= (IF 4 * NumInlinedBuckets >= 3 * capacity(m)
                    THEN 4 * NumInlinedBuckets ELSE 3 * capacity(m))

\* C14, amended: after every insert, size <= max(N, capacity): the table has
\* no load factor below 1, it is resized only when InsertInArray finds no
\* slot it can use.
C14_FullTableBound ==
  last.op \in {"insert", "index"} =>
    /\ size(m) <= (IF NumInlinedBuckets >= capacity(m)
                   THEN NumInlinedBuckets ELSE capacity(m))
    /\ size(m) = Cardinality(Live(m))

\* An insert that fills the last free slot of a table on the heap.
C14_Witness ==
  /\ last.op = "insert"
  /\ last.ret = 1
  /\ capacity(m) >= 16
  /\ size(m) = capacity(m)


\* C15: capacity growth: in a default-constructed table of inline capacity 8,
\* whatever the hash values of the keys, an insert of an absent key into a
\* table of capacity 8 that holds fewer than 8 keys stores the key and leaves
\* the capacity 8, and the insert of a 9th key stores it and raises the
\* capacity to exactly 16; every key inserted so far stays stored.
C15_CapacityGrowth ==
  [][(/\ last'.op \in {"insert", "index"}
      /\ last'.oret = 1
      /\ NumInlinedBuckets = 8
      /\ capacity(m) = 8)
     =>
     /\ last'.ret = 1
     /\ fault' = "none"
     /\ size(m') = size(m) + 1
     /\ capacity(m') = (IF size(m) < 8 THEN 8 ELSE 16)
     /\ \A k \in ModelKeys(model') : FindPair(m', k)[1] = k
     /\ Cardinality(Live(m')) = Cardinality(ModelKeys(model'))]_vars

\* The 9th key of nine that share one hash value modulo 8 and 16.
C15_Witness ==
  /\ workload = "collide"
  /\ NumInlinedBuckets = 8
  /\ last.op = "insert"
  /\ last.ret = 1
  /\ size(m) = 9
  /\ capacity(m) = 16


\* C16 as claimed, with MaxLoadFactor = 0.75: a table constructed with a
\* bucket-count hint is empty and its capacity is the smallest power of two
\* >= max(N, ceil(hint / MaxLoadFactor)), 0 when that maximum is 0; the
\* default hint is 0.
C16_ComputeCapacity ==
  last.op \in {"init", "construct"} =>
    LET hint == IF last.op = "init" THEN 0 ELSE last.ret
        scaled == (4 * hint + 2) \div 3
        want == IF scaled < NumInlinedBuckets THEN NumInlinedBuckets ELSE scaled
    IN /\ size(m) = 0
       /\ IF want = 0 THEN capacity(m) = 0
          ELSE /\ capacity(m) \in {2 ^ i : i \in 0..(IndexBits - 1)}
               /\ capacity(m) >= want
               /\ capacity(m) < 2 * want

\* C16, amended: a table constructed with a bucket-count hint is empty and
\* its capacity is the smallest power of two >= max(N, hint), 0 when that
\* maximum is 0; with the default hint 0 the capacity is N.
C16_CapacityOfHint ==
  last.op \in {"init", "construct"} =>
    LET hint == IF last.op = "init" THEN 0 ELSE last.ret
        want == IF hint < NumInlinedBuckets THEN NumInlinedBuckets ELSE hint
    IN /\ size(m) = 0
       /\ empty(m)
       /\ begin(m) = end
       /\ Live(m) = {}
       /\ hint = 0 => capacity(m) = NumInlinedBuckets
       /\ IF want = 0 THEN capacity(m) = 0
          ELSE /\ capacity(m) \in {2 ^ i : i \in 0..(IndexBits - 1)}
               /\ capacity(m) >= want
               /\ capacity(m) < 2 * want

\* A hint whose quotient by 0.75 passes the next power of two.
C16_Witness ==
  /\ last.op = "construct"
  /\ last.ret = 13
  /\ size(m) = 0
  /\ capacity(m) = 16


\* C17 as claimed: for N = 0, ComputeCapacity(1) is 32, so the first insert
\* into a default-constructed table (capacity 0) leaves capacity() = 32.
C17_FirstInsert32 ==
  [][(/\ NumInlinedBuckets = 0
      /\ capacity(m) = 0
      /\ last'.op \in {"insert", "index"})
     =>
     /\ ComputeCapacity(1) = 32
     /\ capacity(m') = 32]_vars

\* C17, amended: for N = 0, ComputeCapacity(1) is 1, so the first insert into
\* a default-constructed table (capacity 0) stores the key and leaves
\* capacity() = 1.
C17_FirstInsertCapacity ==
  [][(/\ NumInlinedBuckets = 0
      /\ capacity(m) = 0
      /\ last'.op \in {"insert", "index"})
     =>
     /\ ComputeCapacity(1) = 1
     /\ capacity(m') = 1
     /\ size(m') = 1
     /\ last'.ret = 1
     /\ fault' = "none"]_vars

C17_Witness ==
  /\ NumInlinedBuckets = 0
  /\ last.op = "insert"
  /\ last.ret = 1
  /\ size(m) = 1
  /\ capacity(m) = 1


\* C18: abort is not a runtime condition: with a hash function under which
\* no more than MaxHopDistance keys share a hash value (here every key has
\* its own hash value), in every sequence of insert, erase and clear an
\* insert of an absent key returns inserted = true and abort() is not reached.
C18_NoAbort ==
  /\ fault # "abort"
  /\ (last.op \in {"insert", "index"} /\ last.oret = 1) => last.ret = 1


\* C19: leaf/origin consistency: for every bucket b and every set leaf bit d
\* of its metadata, slot (b + d) mod capacity is occupied and its origin
\* field is d; and every occupied slot j with origin field d has the leaf
\* bit d set in bucket (j - d) mod capacity, and no leaf bit of any other
\* bucket (nor another bit of that bucket) leads to j: the bit e of bucket
\* (j - e) mod capacity is clear for every e other than d.
C19_LeafOriginConsistency ==
  /\ \A b \in Slots(m) : \A d \in 0..(kMaskBits - 1) :
       HasLeaf(GetBucket(m, b).md, d) =>
         /\ IsOccupied(GetBucket(m, Clamp(m, b + d)).md)
         /\ GetOrigin(GetBucket(m, Clamp(m, b + d)).md) = d
  /\ \A j \in Live(m) :
       LET d == GetOrigin(GetBucket(m, j).md)
       IN /\ d \in 0..(MaxHopDistance - 1)
          /\ \A e \in 0..(kMaskBits - 1) :
               HasLeaf(GetBucket(m, Clamp(m, j + capacity(m) * kMaskBits - e)).md, e)
                 <=> (e = d)

\* After an erase, a slot that lies before its origin bucket (the
\* neighbourhood wraps around the end of the array) in a table on the heap.
C19_Witness ==
  /\ last.op \in {"erase", "erase_it"}
  /\ capacity(m) >= 16
  /\ \E j \in Live(m) :
       /\ GetOrigin(GetBucket(m, j).md) > 0
       /\ Clamp(m, j + capacity(m) - GetOrigin(GetBucket(m, j).md)) > j


\* C20: origin equals hash: for every occupied slot i, the origin field is in
\* [0, MaxHopDistance) and hash(key at i) mod capacity equals
\* (i - origin(i)) mod capacity, also after a resize and after a hopscotch
\* displacement.
C20_OriginEqualsHash ==
  \A i \in Live(m) :
    /\ GetBucket(m, i).value # NoValue
    /\ GetOrigin(GetBucket(m, i).md) \in 0..(MaxHopDistance - 1)
    /\ Hash(ExtractKey(GetBucket(m, i).value)) % capacity(m)
         = (i + MaxHopDistance * capacity(m) - GetOrigin(GetBucket(m, i).md))
             % capacity(m)


\* After two resizes (capacity 32), key 63 of the last bucket sits in slot 0,
\* which FindCloserFreeBucket freed by moving key 0 to slot 26, the last
\* slot of its neighbourhood.
C20_Witness ==
  /\ capacity(m) = 32
  /\ IsOccupied(GetBucket(m, 0).md)
  /\ ExtractKey(GetBucket(m, 0).value) = 63
  /\ GetOrigin(GetBucket(m, 0).md) = 1
  /\ IsOccupied(GetBucket(m, 26).md)
  /\ ExtractKey(GetBucket(m, 26).value) = 0
  /\ GetOrigin(GetBucket(m, 26).md) = MaxHopDistance - 1


\* C21: lookup completeness: in every state, find(k), which compares k only
\* with the slots flagged in the leaf mask of bucket hash(k) mod capacity,
\* answers as a linear scan of all slots does: the slot i when an occupied
\* slot i holds a key equal to k (there is at most one), end() when none does.
C21_LookupCompleteness ==
  LET live == Live(m)
      scanned == {ExtractKey(GetBucket(m, i).value) : i \in live}
  IN /\ Cardinality(scanned) = Cardinality(live)
     /\ scanned \subseteq WKeys
     /\ \A k \in WKeys :
          LET f == FindInArray(m, k, Hash(k))
          IN /\ f.fault = "none"
             /\ IF k \in scanned
                THEN /\ f.found
                     /\ f.index \in live
                     /\ ExtractKey(GetBucket(m, f.index).value) = k
                ELSE ~f.found /\ FoundAt(f) = end

\* A key that is found at the last position of its neighbourhood, behind 26
\* other leaves of its bucket, while another key of the table is absent.
C21_Witness ==
  /\ \E i \in Live(m) :
       /\ GetOrigin(GetBucket(m, i).md) = MaxHopDistance - 1
       /\ find(m, ExtractKey(GetBucket(m, i).value)) = i
  /\ \E k \in WKeys : find(m, k) = end

\* The array the next attempt of Insert acts on when the attempt on the array
\* a returned ARRAY_FULL: what one ExpandTable(1) makes of what the attempt left.
AfterFull(a, k) == ExpandTable(InsertInArray(a, k, Hash(k)).array, 1).array

\* The attempt of Insert on the array a returns ARRAY_FULL.
Full(a, k) == InsertInArray(a, k, Hash(k)).result = "ARRAY_FULL"

\* r is what Insert gives when its attempt on the array a, made after n
\* attempts that returned ARRAY_FULL, is the one that finds a slot: the array
\* this attempt left with size_ one more than the size0 before the insert.
Placed(r, a, k, n, size0) ==
  /\ r.result = "EMPTY_SLOT_FOUND"
  /\ r.fault = "none"
  /\ r.index = InsertInArray(a, k, Hash(k)).index
  /\ r.array = [InsertInArray(a, k, Hash(k)).array EXCEPT !.size_ = size0 + 1]

\* r is what Insert gives for the absent key k on the array a0, a1, a2 and a3
\* being the arrays of the second, third and fourth attempt.
InsertProtocol(r, k, a0, a1, a2, a3) ==
  IF ~Full(a0, k) THEN Placed(r, a0, k, 0, a0.size_)
  ELSE IF ~Full(a1, k) THEN Placed(r, a1, k, 1, a0.size_)
  ELSE IF ~Full(a2, k) THEN Placed(r, a2, k, 2, a0.size_)
  ELSE IF ~Full(a3, k) THEN Placed(r, a3, k, 3, a0.size_)
  ELSE r.result = "ABORT" /\ r.fault = "abort"

\* e is what ExpandTable(delta) gives for the array a: no assertion failed,
\* the pairs of the occupied slots and size_ are those of a, and the capacity
\* is ComputeCapacity(capacity + delta), not below the capacity of a.
Resized(a, delta, e) ==
  /\ e.fault = "none"
  /\ Elements(e.array) = Elements(a)
  /\ Cardinality(Live(e.array)) = Cardinality(Live(a))
  /\ e.array.size_ = a.size_
  /\ capacity(e.array) = ComputeCapacity((capacity(a) + delta) % IndexMod)
  /\ capacity(e.array) >= capacity(a)

\* C22: resize preserves content: in every state, ExpandTable(1) leaves the
\* set of key-value pairs of the occupied slots and size_ as they were, fails
\* no assertion, and the new capacity is ComputeCapacity(capacity + 1), which
\* is not below the old capacity.
C22_ResizePreservesContent == Resized(m, 1, ExpandTable(m, 1))

\* C23: the assertion of ExpandTable never fails: no operation ends with a
\* re-insertion of an element of the old array into the new, larger array that
\* returned ARRAY_FULL (or KEY_FOUND) rather than EMPTY_SLOT_FOUND.
C23_ReinsertSucceeds == fault # "expand_assert"

\* C24: the insert protocol: Insert of an absent key makes at most 4 attempts
\* of InsertInArray, one ExpandTable(1) after each attempt that returned
\* ARRAY_FULL; the first attempt that finds a slot ends it with size_
\* incremented once; it aborts exactly when all 4 attempts returned ARRAY_FULL.
C24_InsertProtocol ==
  \A k \in {x \in InsertKeys : find(m, x) = end} :
    InsertProtocol(Insert(m, k), k, m, AfterFull(m, k),
                   AfterFull(AfterFull(m, k), k),
                   AfterFull(AfterFull(AfterFull(m, k), k), k))

\* An insert has stored the key 128 at the fourth attempt: the 27 keys of its
\* bucket filled the neighbourhood at 32, 64 and 128 slots.
C24_Witness ==
  /\ last.op = "insert" /\ last.ret = 1
  /\ workload = "alias"
  /\ find(m, 128) # end
  /\ size(m) = MaxHopDistance + 1
  /\ capacity(m) = 256

\* b is the array a after the element of the slot nfree was moved to the
\* unoccupied slot free, and to no other effect on the elements: the element
\* belongs to a bucket free - d with 1 <= d < MaxHopDistance and sat at a
\* distance below d from it; every other slot keeps its element and origin.
Relocated(a, b, free, nfree) ==
  /\ IsOccupied(GetBucket(a, nfree).md) /\ ~IsOccupied(GetBucket(a, free).md)
  /\ ~IsOccupied(GetBucket(b, nfree).md) /\ IsOccupied(GetBucket(b, free).md)
  /\ GetBucket(b, free).value = GetBucket(a, nfree).value
  /\ GetOrigin(GetBucket(b, free).md) \in 1..(MaxHopDistance - 1)
  /\ GetOrigin(GetBucket(a, nfree).md) < GetOrigin(GetBucket(b, free).md)
  /\ Clamp(a, free + IndexMod - GetOrigin(GetBucket(b, free).md))
       = Clamp(a, nfree + IndexMod - GetOrigin(GetBucket(a, nfree).md))
  /\ capacity(b) = capacity(a) /\ b.size_ = a.size_
  /\ \A j \in Slots(a) \ {free, nfree} :
        /\ GetBucket(b, j).value = GetBucket(a, j).value
        /\ GetBucket(b, j).md.origin_ = GetBucket(a, j).md.origin_

\* The do-while loop of InsertInArray for the origin bucket origin_index makes
\* progress from the unoccupied slot free_index on: every call of
\* FindCloserFreeBucket that returns a slot relocates one element as above
\* and returns a slot between the origin and free_index, nearer to the origin.
RECURSIVE HopProgress(_, _, _)
HopCloser(a, origin_index, free_index, r) ==
  \/ r.index = kEnd
  \/ /\ Distance(a, origin_index, r.index) < Distance(a, origin_index, free_index)
     /\ Distance(a, origin_index, r.index) + Distance(a, r.index, free_index)
          = Distance(a, origin_index, free_index)
     /\ Relocated(a, r.array, free_index, r.index)
     /\ HopProgress(r.array, origin_index, r.index)

HopProgress(a, origin_index, free_index) ==
  \/ free_index = kEnd
  \/ Distance(a, origin_index, free_index) < MaxHopDistance
  \/ HopCloser(a, origin_index, free_index, FindCloserFreeBucket(a, free_index))

\* The slot the for loop of InsertInArray leaves in free_index for the key k.
FreeFor(a, k) ==
  FirstFree(a, Clamp(a, Hash(k)), 0,
            IF MaxAddDistance < capacity(a) THEN MaxAddDistance ELSE capacity(a))

\* C25: hop-in progress: in every state and for every key the client may
\* insert, each call of FindCloserFreeBucket made by InsertInArray that returns
\* a slot has moved only an element of a bucket free - d (1 <= d < 27) that sat
\* at a leaf distance below d, and the slot returned is nearer to the origin
\* of the insertion than the free slot before, without passing the origin; so
\* the do-while loop of InsertInArray ends.
C25_HopProgress ==
  \A k \in InsertKeys :
    capacity(m) = 0 \/ HopProgress(m, Clamp(m, Hash(k)), FreeFor(m, k))

\* An insert has acted, and for a key the client may insert the first free
\* slot is MaxHopDistance or more from its bucket and FindCloserFreeBucket
\* finds an element to move.
C25_Witness ==
  /\ last.op = "insert" /\ last.ret = 1
  /\ \E k \in InsertKeys :
       /\ capacity(m) > 0
       /\ FreeFor(m, k) # kEnd
       /\ Distance(m, Clamp(m, Hash(k)), FreeFor(m, k)) >= MaxHopDistance
       /\ FindCloserFreeBucket(m, FreeFor(m, k)).index # kEnd

\* C26: the preconditions of the metadata always hold: on the arrays of both
\* tables, every SetLeaf(i) was called with 0 <= i < 27 on a clear bit, every
\* ClearLeaf(i) with 0 <= i < 27 on a set bit and every SetOrigin(d) with
\* 0 <= d < 27: no assertion of the metadata has failed.
C26_MetadataPreconditions == m.asserts_ /\ m2.asserts_

\* An erase has cleared a leaf bit in a table of more than one element in
\* which an insert set the leaf bit and the origin of a displaced element.
C26_Witness ==
  /\ last.op = "erase" /\ last.ret = 1
  /\ size(m) >= 2
  /\ \E i \in Live(m) :
       /\ GetOrigin(GetBucket(m, i).md) = MaxHopDistance - 1
       /\ HasLeaf(GetBucket(m, Clamp(m, i + IndexMod - (MaxHopDistance - 1))).md,
                  MaxHopDistance - 1)

\* The leaf bits and the origin fields of the array a agree: a set leaf bit d
\* of bucket b leads to an occupied slot of origin d, and the only leaf bit
\* that leads to an occupied slot is the one its origin field names.
LeafOrigin(a) ==
  /\ \A b \in Slots(a) : \A d \in 0..(kMaskBits - 1) :
       HasLeaf(GetBucket(a, b).md, d) =>
         GetOrigin(GetBucket(a, Clamp(a, b + d)).md) = d
  /\ \A j \in Live(a) : \A e \in 0..(kMaskBits - 1) :
       HasLeaf(GetBucket(a, Clamp(a, j + capacity(a) * kMaskBits - e)).md, e)
         <=> (e = GetOrigin(GetBucket(a, j).md))

\* Every occupied slot of the array a lies at its origin distance from the
\* bucket of the hash value of its key.
OriginHash(a) ==
  \A i \in Live(a) :
    /\ GetBucket(a, i).value # NoValue
    /\ Clamp(a, Hash(ExtractKey(GetBucket(a, i).value)))
         = Clamp(a, i + IndexMod - GetOrigin(GetBucket(a, i).md))

\* The array b that a failed placement left of the array a holds the elements
\* and the size of a, and is consistent.
Unharmed(a, b) ==
  /\ Elements(b) = Elements(a)
  /\ Cardinality(Live(b)) = Cardinality(Live(a))
  /\ b.size_ = a.size_
  /\ capacity(b) = capacity(a)
  /\ b.asserts_
  /\ LeafOrigin(b)
  /\ OriginHash(b)

\* What InsertInArray gave for the array a is harmless when it is ARRAY_FULL,
\* and the ExpandTable(1) that follows migrates every element.
Harmless(a, r) ==
  r.result = "ARRAY_FULL" =>
    Unharmed(a, r.array) /\ Resized(r.array, 1, ExpandTable(r.array, 1))

\* C27: a failed placement is harmless: in every state and for every absent
\* key the client may insert, when InsertInArray returns ARRAY_FULL (also after
\* FindCloserFreeBucket moved elements) the array holds the same pairs and
\* size, its leaf bits and origin fields agree and lead to the bucket of the
\* hash value, and the ExpandTable(1) that follows migrates every element.
C27_FailedPlacementHarmless ==
  \A k \in {x \in InsertKeys : find(m, x) = end} :
    Harmless(m, InsertInArray(m, k, Hash(k)))

\* The part of C27 about the array that the failed placement leaves.
FailedPlacementUnharmed ==
  \A k \in {x \in InsertKeys : find(m, x) = end} :
    InsertInArray(m, k, Hash(k)).result = "ARRAY_FULL" =>
      Unharmed(m, InsertInArray(m, k, Hash(k)).array)

\* A placement fails after FindCloserFreeBucket has moved an element.
FailsAfterHop ==
  \E k \in {x \in InsertKeys : find(m, x) = end} :
    /\ InsertInArray(m, k, Hash(k)).result = "ARRAY_FULL"
    /\ InsertInArray(m, k, Hash(k)).array # m

\* b is the array a after the element of slot i, at distance d from its
\* bucket, was erased and nothing else was changed: slot i is unoccupied, the
\* leaf bit d of bucket i - d is cleared, every other leaf bit, origin field
\* and element, and the capacity, are those of a.
ErasedOnly(a, b, i, d) ==
  /\ capacity(b) = capacity(a)
  /\ b.size_ = a.size_ - 1
  /\ ~IsOccupied(GetBucket(b, i).md)
  /\ \A j \in Slots(a) :
       /\ j # i => /\ GetBucket(b, j).value = GetBucket(a, j).value
                   /\ GetBucket(b, j).md.origin_ = GetBucket(a, j).md.origin_
       /\ GetBucket(b, j).md.mask_ =
            IF j = Clamp(a, i + IndexMod - d)
            THEN GetBucket(a, j).md.mask_ - 2 ^ d
            ELSE GetBucket(a, j).md.mask_

\* C28: erase frame: in every state, erasing the element of any occupied slot
\* changes that slot (its origin is cleared) and one leaf bit of its origin
\* bucket, and nothing else: every other element stays in its slot with its
\* key, value and origin, and the capacity is unchanged.
C28_EraseFrame ==
  \A i \in Live(m) :
    ErasedOnly(m, erase_it(m, i).array, i, GetOrigin(GetBucket(m, i).md))

\* An erase has acted on a table on the heap that still holds an element at
\* the last distance from a bucket that wraps around the end of the array.
C28_Witness ==
  /\ last.op \in {"erase", "erase_it"} /\ last.ret = 1
  /\ capacity(m) >= 32
  /\ \E i \in Live(m) :
       /\ GetOrigin(GetBucket(m, i).md) = MaxHopDistance - 1
       /\ Clamp(m, i + IndexMod - (MaxHopDistance - 1)) > i

\* The array a has its inline slots, and overflow slots for every slot of its
\* capacity beyond them.
Allocated(a) ==
  /\ Len(a.inlined_) = NumInlinedBuckets
  /\ capacity(a) > NumInlinedBuckets =>
       Len(a.outlined_) >= capacity(a) - NumInlinedBuckets

\* GetBucket(index) and MutableBucket(index) of the array a stay within it.
InBounds(a, index) ==
  /\ index \in 0..(capacity(a) - 1)
  /\ index >= NumInlinedBuckets => index - NumInlinedBuckets + 1 \in DOMAIN a.outlined_

\* The values the operations of the table pass to Clamp: a hash value, a slot
\* plus a distance of up to MaxAddDistance, and a slot minus a distance of up
\* to MaxHopDistance, which wraps around for a slot below the distance.
ClampArgs(a) ==
  (0..(capacity(a) + MaxAddDistance)) \cup ((IndexMod - MaxHopDistance)..(IndexMod - 1))

\* The slot accesses of the operations on the array a, but for the one of
\* ExpandTable through new_i, stay within the array: the slots FindInArray,
\* InsertInArray and FindCloserFreeBucket compute with Clamp, the slots of
\* the iterators, and what find and Insert return; an array of no slot is
\* not accessed.
AccessInBounds(a) ==
  /\ Allocated(a)
  /\ capacity(a) > 0 => \A x \in ClampArgs(a) : InBounds(a, Clamp(a, x))
  /\ \A i \in Live(a) : InBounds(a, i)
  /\ begin(a) # end => InBounds(a, begin(a))
  /\ \A k \in WKeys :
       /\ find(a, k) # end => InBounds(a, find(a, k))
       /\ capacity(a) = 0 =>
            /\ FindInArray(a, k, Hash(k)) = [found |-> FALSE, index |-> kEnd, fault |-> "none"]
            /\ InsertInArray(a, k, Hash(k)) = [array |-> a, result |-> "ARRAY_FULL", index |-> kEnd]
  /\ capacity(a) = 0 => begin(a) = end /\ Live(a) = {}

\* What Insert gave for the key k is a slot of the array it left, unless
\* it aborted.
InsertedInBounds(r) == r.result = "ABORT" \/ InBounds(r.array, r.index)

\* C29: slot access stays in bounds: every index passed to GetBucket and
\* MutableBucket is in [0, capacity), the overflow array holds at least
\* capacity - N slots whenever the index is N or more, and a table of
\* capacity 0 accesses no slot.  The index new_i that ExpandTable passes to
\* MutableBucket is one of them: it is written by InsertInArray only when the
\* re-insertion returns EMPTY_SLOT_FOUND.
C29_SlotAccessInBounds ==
  /\ AccessInBounds(m)
  /\ Allocated(m2)
  /\ \A k \in InsertKeys : InsertedInBounds(Insert(m, k))
  /\ fault # "expand_assert"

\* The part of C29 without the index new_i of ExpandTable.
AccessInBoundsButExpand ==
  /\ AccessInBounds(m)
  /\ AccessInBounds(m2)
  /\ \A k \in InsertKeys : InsertedInBounds(Insert(m, k))

\* The set bits of the leaf mask of md.
LeafBits(md) == {i \in 0..(kMaskBits - 1) : HasLeaf(md, i)}

\* The j-th least member of a set of numbers, j from 1.
NthLeast(s, j) == CHOOSE b \in s : Cardinality({c \in s : c < b}) = j - 1

\* C30: for the leaf mask a LeafIterator was made of, the j-th call of Next()
\* returns the j-th least index of a set bit of the mask, for j up to the
\* number of set bits, and every later call returns -1: the indices of the
\* set bits in strictly ascending order, each once, then -1 for ever.
C30_LeafIteratorOrder ==
  \A j \in 1..Len(leaf.rets) :
    leaf.rets[j] = IF j <= Cardinality(LeafBits(leaf.md))
                   THEN NthLeast(LeafBits(leaf.md), j)
                   ELSE -1

\* Next() has returned bit 0, neighbouring bits, bit 26 and then -1 more than
\* once.
C30_Witness ==
  /\ {0, 1, kMaskBits - 1} \subseteq LeafBits(leaf.md)
  /\ Len(leaf.rets) = Cardinality(LeafBits(leaf.md)) + 2
  /\ leaf.rets[1] = 0
  /\ leaf.rets[Len(leaf.rets)] = -1

====
